---- MODULE Spec2Model ----
(***************************************************************************)
(* A model of anomaly-alert.py, the MinIO traffic anomaly detection        *)
(* service: the two detectors, the per-key alert cooldown, the four         *)
(* evaluators and the monitoring loop of MinIOAnomalyMonitor.run.           *)
(*                                                                         *)
(* Time is counted in abstract ticks.  Numbers are exact: a z-score is      *)
(* kept as the pair (n*|x - mean|, n^2*variance) and compared by squaring,  *)
(* a rate of change as a fraction.  The float64 rounding of the code is     *)
(* kept where it decides a result: a z-score that equals the value it is    *)
(* compared with may come out just above it.                                *)
(* Texts (insight, context) are modelled up to being empty or not.          *)
(***************************************************************************)
EXTENDS Integers, Sequences, FiniteSets, TLC

VARIABLES
    pc,                   \* where run() is: an evaluator, "sleep", "except_sleep", "stopped"
    step,                 \* position inside the running evaluator
    i,                    \* index of the for loop of check_network_traffic (0 outside it)
    clock,                \* time.time()
    alert_cooldown_dict,  \* self.alert_cooldown_dict: alert key -> time of last record
    fetched,              \* the series get_metric_values returned to the running evaluator
    alert,                \* the AnomalyAlert built by the running evaluator
    insight,              \* the local `insight` of the running evaluator
    last_attempt,         \* history: alert key -> when send_alert last returned
    notification,         \* the payload send_alert built for the running evaluator
    trace,                \* history: the calls made since the running evaluator began
    interrupted,          \* history: a KeyboardInterrupt was raised
    openwebui             \* self.openwebui: <<>> for None, else <<the OpenWebUIInsight>>

vars == <<pc, step, i, clock, alert_cooldown_dict, fetched, alert, insight,
          last_attempt, notification, trace, interrupted, openwebui>>

(***************************************************************************)
(* Bounds of the model and configured values.                              *)
(***************************************************************************)
alert_cooldown == 1      \* ticks; ALERT_COOLDOWN scaled down
check_interval == 1      \* ticks; CHECK_INTERVAL scaled down
MaxDelay == 1            \* longest time one request or one sleep overruns
MaxClock == 5            \* the clock is followed up to this time
ShortLen == 10           \* length of the shorter sample windows
LongLen == 20            \* length of the longer sample windows
MaxPad == 10             \* longest run of equal samples inside a detector input
ScenarioLen == 24        \* length of the free-space window of the storage scenario

ZSCORE_THRESHOLD_NUM == 5    \* ZSCORE_THRESHOLD = 2.5 = 5/2
ZSCORE_THRESHOLD_DEN == 2
ROC_THRESHOLD == 100
FIXED_ZSCORE_THRESHOLD == 2  \* threshold=2.0 of check_request_rate, check_error_rate
RECENT_POINTS == 10          \* values[-10:]
HIGH_ROC == 200              \* abs(roc) > 200
HIGH_ZSCORE == 4             \* zscore > 4
GB == 1000000000             \* 1e9
MB == 1000000                \* 1e6

Abs(x) == IF x < 0 THEN -x ELSE x

RECURSIVE Sum(_)
Sum(s) == IF s = <<>> THEN 0 ELSE Head(s) + Sum(Tail(s))

RECURSIVE SumSq(_)
SumSq(s) == IF s = <<>> THEN 0 ELSE Head(s) * Head(s) + SumSq(Tail(s))

Last(s) == s[Len(s)]

\* n without its factors 2
RECURSIVE OddPart(_)
OddPart(n) == IF n > 0 /\ n % 2 = 0 THEN OddPart(n \div 2) ELSE n

(***************************************************************************)
(* AnomalyDetector                                                         *)
(***************************************************************************)
\* zscore_anomaly(values, threshold) with threshold = tn/td.  The result keeps
\* n, sum = n*mean, var = n^2*std^2 and dev = n*|current - mean|, so that
\*   zscore = dev / sqrt(var),  (lower, upper) = (sum -/+ threshold*sqrt(var)) / n.
\* The two early returns give zscore 0 and the range (0,0) resp. (mean, mean).
\* np.mean and np.std work in float64.  The mean S/n and the variance var/n^2
\* of integer samples are float64 numbers when the odd part of n divides S and
\* its square divides var; the z-score is then computed exactly.  Otherwise a
\* z-score that equals the value it is compared with is computed as that value
\* or as the next float above it ([4,4,4,4,7] gives 2.0000000000000004): `up`
\* tells which.
zscore_anomaly(values, tn, td, up0) ==
    LET n   == Len(values)
        S   == Sum(values)
        var == n * SumSq(values) - S * S
        dev == Abs(n * Last(values) - S)
        o   == OddPart(n)
        up  == up0 /\ (S % o # 0 \/ var % (o * o) # 0)
    IN  IF n < 2
        THEN [is_anomaly |-> FALSE, n |-> 1, sum |-> 0, var |-> 0, dev |-> 0,
              up |-> FALSE]
        ELSE IF var = 0
        THEN [is_anomaly |-> FALSE, n |-> n, sum |-> S, var |-> 0, dev |-> 0,
              up |-> FALSE]
        ELSE [is_anomaly |-> \/ td * td * dev * dev > tn * tn * var
                             \/ up /\ td * td * dev * dev = tn * tn * var,
              n |-> n, sum |-> S, var |-> var, dev |-> dev, up |-> up]

\* zscore > k
ZscoreAbove(z, k) ==
    \/ z.dev * z.dev > k * k * z.var
    \/ z.up /\ z.var # 0 /\ z.dev * z.dev = k * k * z.var

\* current < expected_range[0] * 0.5
BelowHalfLower(current, z, tn, td) ==
    LET r == td * (z.sum - 2 * z.n * current)
    IN  r > 0 /\ tn * tn * z.var < r * r

\* current > expected[1] * 2
AboveTwiceUpper(current, z, tn, td) ==
    LET r == td * (z.n * current - 2 * z.sum)
    IN  r > 0 /\ 4 * tn * tn * z.var < r * r

\* rate_of_change_anomaly comparing rate_change, not abs(rate_change)
rate_of_change_anomaly_signed(values, threshold) ==
    LET n      == Len(values)
        recent == IF n >= RECENT_POINTS
                  THEN SubSeq(values, n - RECENT_POINTS + 1, n)
                  ELSE values
        first  == recent[1]
        num    == (Last(recent) - first) * 100
    IN  IF n < 2 \/ first = 0
        THEN [is_anomaly |-> FALSE, num |-> 0, den |-> 1]
        ELSE [is_anomaly |-> num * first > threshold * first * first,
              num |-> num, den |-> first]

\* rate_of_change_anomaly without the test recent[0] == 0
rate_of_change_anomaly_unguarded(values, threshold) ==
    LET n      == Len(values)
        recent == IF n >= RECENT_POINTS
                  THEN SubSeq(values, n - RECENT_POINTS + 1, n)
                  ELSE values
        first  == recent[1]
        num    == (Last(recent) - first) * 100
    IN  IF n < 2
        THEN [is_anomaly |-> FALSE, num |-> 0, den |-> 1]
        ELSE [is_anomaly |-> Abs(num) > threshold * Abs(first),
              num |-> num, den |-> first]

\* rate_of_change_anomaly(values, threshold): rate_change = num/den percent.
rate_of_change_anomaly(values, threshold) ==
    LET n      == Len(values)
        recent == IF n >= RECENT_POINTS
                  THEN SubSeq(values, n - RECENT_POINTS + 1, n)
                  ELSE values
        first  == recent[1]
        num    == (Last(recent) - first) * 100
    IN  IF n < 2
        THEN [is_anomaly |-> FALSE, num |-> 0, den |-> 1]
        ELSE IF first = 0
        THEN [is_anomaly |-> FALSE, num |-> 0, den |-> 1]
        ELSE [is_anomaly |-> Abs(num) > threshold * Abs(first),
              num |-> num, den |-> first]

\* abs(roc) > k
RocAbove(roc, k) == Abs(roc.num) > k * Abs(roc.den)

(***************************************************************************)
(* The values the environment supplies.                                    *)
(***************************************************************************)
\* n samples: n-1 times a, then b.
Ramp(n, a, b) == [j \in 1..n |-> IF j < n THEN a ELSE b]

\* The windows the metric source returns: none, a flat window, a spike of +300%,
\* a drop to zero, and a spike over a long zero baseline.
MetricSeries ==
    {<<>>, Ramp(ShortLen, 10, 10), Ramp(ShortLen, 10, 40), Ramp(ShortLen, 10, 0),
     Ramp(LongLen, 0, 40)}

\* What requests.get does for query_range: the request fails, the status is not
\* 2xx, the body is not the expected JSON, or it is a body with a status and a
\* result list.  An entry of the result list is wellformed when it has the key
\* 'values' and every sample of it parses as a float.
Responses ==
    {[outcome |-> o, status |-> "", result |-> <<>>] :
        o \in {"network_error", "http_error", "bad_json"}}
    \cup {[outcome |-> "ok", status |-> "error", result |-> <<>>],
          [outcome |-> "ok", status |-> "success", result |-> <<>>],
          [outcome |-> "ok", status |-> "success",
           result |-> <<[wellformed |-> FALSE, values |-> <<>>]>>]}
    \cup {[outcome |-> "ok", status |-> "success",
           result |-> <<[wellformed |-> TRUE, values |-> s]>>] : s \in MetricSeries}

\* What requests.post does for generate_context.
InsightResponses ==
    {[outcome |-> "timeout", status_code |-> 0, wellformed |-> FALSE, content |-> ""],
     [outcome |-> "network_error", status_code |-> 0, wellformed |-> FALSE, content |-> ""],
     [outcome |-> "ok", status_code |-> 500, wellformed |-> TRUE, content |-> "insight"],
     [outcome |-> "ok", status_code |-> 200, wellformed |-> FALSE, content |-> ""],
     [outcome |-> "ok", status_code |-> 200, wellformed |-> TRUE, content |-> ""],
     [outcome |-> "ok", status_code |-> 200, wellformed |-> TRUE, content |-> " "],
     [outcome |-> "ok", status_code |-> 200, wellformed |-> TRUE, content |-> "insight"]}

\* What requests.post and raise_for_status do for send_alert.
Deliveries == {"ok", "network_error", "http_error"}

(***************************************************************************)
(* PrometheusConnector, OpenWebUIInsight, DiscordNotifier                  *)
(***************************************************************************)
query_range(resp) ==
    IF resp.outcome = "ok" /\ resp.status = "success" /\ resp.result # <<>>
    THEN resp.result
    ELSE <<>>

\* str.strip() on the texts of the model
strip(text) == IF text = " " THEN "" ELSE text

\* generate_context without the status and shape checks
generate_context_unchecked(resp) == strip(resp.content)

\* The insight is the stripped content of a well-formed 200 answer, "" otherwise.
\* (insight[:250] keeps a non-empty text non-empty, which is all the model tells
\* of a text.)
generate_context(resp) ==
    IF resp.outcome = "ok" /\ resp.status_code = 200 /\ resp.wellformed
    THEN strip(resp.content)
    ELSE ""

colors(severity) ==
    CASE severity = "low" -> "FFA500"
      [] severity = "medium" -> "FF6600"
      [] OTHER -> "FF0000"

\* The "Context/Insight" field of the embed; NoField when it is not appended.
NoField == "(no field)"
ContextInsightField(al, ins) ==
    IF al.context # "" \/ ins # ""
    THEN (IF ins # "" THEN ins ELSE al.context)
    ELSE NoField

embed(al, ins) ==
    [title |-> al.metric_name, color |-> colors(al.severity),
     severity |-> al.severity, field |-> ContextInsightField(al, ins)]

\* the value send_alert returns
send_alert(delivery) == delivery = "ok"

(***************************************************************************)
(* MinIOAnomalyMonitor                                                     *)
(***************************************************************************)
Evaluators == <<"check_storage_space", "check_request_rate",
                "check_network_traffic", "check_error_rate">>

AfterEvaluator(p) ==
    CASE p = "check_storage_space" -> "check_request_rate"
      [] p = "check_request_rate" -> "check_network_traffic"
      [] p = "check_network_traffic" -> "check_error_rate"
      [] p = "check_error_rate" -> "sleep"

Names == <<"Network Send", "Network Receive">>

\* name.lower().replace(' ', '_')
KeyOfName(name) ==
    CASE name = "Network Send" -> "network_send"
      [] name = "Network Receive" -> "network_receive"

Keys == {"storage_space", "request_rate", "network_send", "network_receive", "error_rate"}

NoAlert == [metric_name |-> "", current_value |-> 0, scale |-> 1,
            severity |-> "", context |-> ""]
NoNotification == [title |-> "", color |-> "", severity |-> "", field |-> ""]

\* Which of OPENWEBUI_URL, OPENWEBUI_API_KEY and OPENWEBUI_MODEL are configured.
Configs == [url : BOOLEAN, key : BOOLEAN, model : BOOLEAN]

\* MinIOAnomalyMonitor.__init__ as called by __main__: use_openwebui follows the
\* API key alone, the URL is passed on when use_openwebui, the model always.
use_openwebui(cfg) == cfg.key
MonitorHasInsight(cfg) ==
    LET openwebui_url == use_openwebui(cfg) /\ cfg.url
        openwebui_key == use_openwebui(cfg) /\ cfg.key
    IN  openwebui_url /\ openwebui_key

\* The fields of an OpenWebUIInsight: which of them hold a non-empty text.
OpenWebUIInsight(base_url, api_key, model) ==
    [base_url |-> base_url, api_key |-> api_key, model |-> model]

\* self.openwebui as __init__ leaves it
MonitorOpenwebui(cfg) ==
    IF MonitorHasInsight(cfg)
    THEN <<OpenWebUIInsight(cfg.url, cfg.key, cfg.model)>>
    ELSE <<>>

get_metric_values(resp) ==
    LET results == query_range(resp)
    IN  IF results = <<>>
        THEN [raised |-> FALSE, values |-> <<>>]
        ELSE IF ~results[1].wellformed
        THEN [raised |-> TRUE, values |-> <<>>]
        ELSE [raised |-> FALSE, values |-> results[1].values]

\* _can_alert that lets a key through once only
_can_alert_once(alert_key) ==
    alert_key \notin DOMAIN alert_cooldown_dict /\ clock > alert_cooldown

\* _can_alert with >= in place of >
_can_alert_at_cooldown(alert_key) ==
    LET last_alert == IF alert_key \in DOMAIN alert_cooldown_dict
                      THEN alert_cooldown_dict[alert_key]
                      ELSE 0
    IN  (clock - last_alert) >= alert_cooldown

_can_alert(alert_key) ==
    LET last_alert == IF alert_key \in DOMAIN alert_cooldown_dict
                      THEN alert_cooldown_dict[alert_key]
                      ELSE 0
    IN  (clock - last_alert) > alert_cooldown

\* _record_alert stamping every entry of the registry
_record_alert_all(alert_key) ==
    alert_cooldown_dict' =
        [k \in DOMAIN alert_cooldown_dict \cup {alert_key} |-> clock]

\* _record_alert called only when send_alert returned True
_record_alert_if_sent(alert_key) ==
    IF trace[Len(trace)] = "logger.error"
    THEN UNCHANGED alert_cooldown_dict
    ELSE alert_cooldown_dict' =
            [k \in DOMAIN alert_cooldown_dict \cup {alert_key} |->
                IF k = alert_key THEN clock ELSE alert_cooldown_dict[k]]

_record_alert(alert_key) ==
    alert_cooldown_dict' =
        [k \in DOMAIN alert_cooldown_dict \cup {alert_key} |->
            IF k = alert_key THEN clock ELSE alert_cooldown_dict[k]]

\* storage_severity with "low" for the lesser case
storage_severity_low(current, z) ==
    IF BelowHalfLower(current, z, ZSCORE_THRESHOLD_NUM, ZSCORE_THRESHOLD_DEN)
    THEN "high" ELSE "low"

\* the severity rules of the four evaluators
storage_severity(current, z) ==
    IF BelowHalfLower(current, z, ZSCORE_THRESHOLD_NUM, ZSCORE_THRESHOLD_DEN)
    THEN "high" ELSE "medium"
\* request_severity comparing roc, not abs(roc)
request_severity_signed(roc) ==
    IF roc.num * roc.den > HIGH_ROC * roc.den * roc.den THEN "high" ELSE "medium"

request_severity(roc) == IF RocAbove(roc, HIGH_ROC) THEN "high" ELSE "medium"
network_severity(z) == IF ZscoreAbove(z, HIGH_ZSCORE) THEN "high" ELSE "medium"
error_severity(current, z) ==
    IF AboveTwiceUpper(current, z, FIXED_ZSCORE_THRESHOLD, 1) THEN "high" ELSE "medium"

\* if not send_values or not recv_values: return None
NetworkNoData(send_values, recv_values) == send_values = <<>> \/ recv_values = <<>>

\* if not values: return None
NoData(values) == values = <<>>

\* run() is inside one of the four evaluators.
InEvaluator == pc \in {Evaluators[e] : e \in 1..4}

\* The alert key the running evaluator works on.
CurrentKey ==
    CASE pc = "check_storage_space" -> "storage_space"
      [] pc = "check_request_rate" -> "request_rate"
      [] pc = "check_network_traffic" -> KeyOfName(Names[i])
      [] pc = "check_error_rate" -> "error_rate"

\* The evaluator returns; run() goes on to the next call.
Return(tr) ==
    /\ pc' = AfterEvaluator(pc)
    /\ step' = IF pc' = "sleep" THEN "-" ELSE "fetch"
    /\ i' = 0
    /\ alert' = NoAlert
    /\ insight' = ""
    /\ trace' = Append(tr, "return")
    /\ fetched' = <<>>
    /\ notification' = NoNotification
    /\ UNCHANGED <<clock, alert_cooldown_dict, last_attempt, interrupted, openwebui>>

\* the evaluator recording the cooldown as soon as the alert is built
BuiltRecordFirst(al, tr, asks) ==
    /\ alert' = al
    /\ insight' = ""
    /\ step' = "record"
    /\ trace' = tr
    /\ UNCHANGED <<pc, i, clock, alert_cooldown_dict, fetched, last_attempt, notification, interrupted, openwebui>>

\* The evaluator has built `al`; next it asks for an insight or sends.
Built(al, tr, asks) ==
    /\ alert' = al
    /\ insight' = ""
    /\ step' = IF asks /\ openwebui # <<>> THEN "insight" ELSE "send"
    /\ trace' = tr
    /\ UNCHANGED <<pc, i, clock, alert_cooldown_dict, fetched, last_attempt, notification, interrupted, openwebui>>

Init ==
    /\ pc = "check_storage_space"
    /\ step = "fetch"
    /\ i = 0
    /\ clock = 0
    /\ alert_cooldown_dict = <<>>
    /\ fetched = <<>>
    /\ alert = NoAlert
    /\ insight = ""
    /\ last_attempt = <<>>
    /\ notification = NoNotification
    /\ trace = <<>>
    /\ interrupted = FALSE
    /\ \E cfg \in Configs : openwebui = MonitorOpenwebui(cfg)

\* self.get_metric_values(query), the first statement(s) of every evaluator; in
\* check_network_traffic the second call is followed by the test for no data.
Fetch(responses) ==
    /\ InEvaluator
    /\ step \in {"fetch", "fetch_recv"}
    /\ \E resp \in responses, d \in 0..MaxDelay :
        LET r   == get_metric_values(resp)
            t0  == IF step = "fetch" THEN <<pc, "get_metric_values">>
                   ELSE Append(trace, "get_metric_values")
            tr  == IF r.values = <<>> /\ ~r.raised THEN Append(t0, "no data") ELSE t0
            got == IF step = "fetch" THEN <<r.values>> ELSE Append(fetched, r.values)
        IN  /\ clock + d <= MaxClock
            /\ clock' = clock + d
            /\ IF r.raised
               THEN /\ pc' = "except_sleep"
                    /\ step' = "-"
                    /\ trace' = Append(tr, "raise")
                    /\ fetched' = <<>>
                    /\ i' = 0
               ELSE IF pc = "check_network_traffic" /\ step = "fetch"
               THEN /\ fetched' = got
                    /\ trace' = tr
                    /\ step' = "fetch_recv"
                    /\ UNCHANGED <<pc, i>>
               ELSE IF pc = "check_network_traffic"
               THEN /\ IF NetworkNoData(got[1], got[2])
                       THEN /\ pc' = AfterEvaluator(pc)
                            /\ step' = "fetch"
                            /\ trace' = Append(tr, "return")
                            /\ fetched' = <<>>
                            /\ i' = 0
                       ELSE /\ step' = "detect"
                            /\ trace' = tr
                            /\ fetched' = got
                            /\ i' = 1
                            /\ pc' = pc
               ELSE /\ fetched' = got
                    /\ trace' = tr
                    /\ step' = "detect"
                    /\ UNCHANGED <<pc, i>>
    /\ UNCHANGED <<alert_cooldown_dict, alert, insight, last_attempt, notification, interrupted, openwebui>>

GetMetricValues == Fetch(Responses)

check_storage_space ==
    /\ pc = "check_storage_space" /\ step = "detect"
    /\ \E up \in BOOLEAN :
       LET values == fetched[1]
           z  == zscore_anomaly(values, ZSCORE_THRESHOLD_NUM, ZSCORE_THRESHOLD_DEN, up)
           t1 == Append(trace, "zscore_anomaly")
           t2 == Append(t1, "_can_alert")
       IN  IF NoData(values) THEN Return(trace)
           ELSE IF ~z.is_anomaly THEN Return(t1)
           ELSE IF ~_can_alert("storage_space") THEN Return(t2)
           ELSE Built([metric_name |-> "Disk Storage - Free Space",
                       current_value |-> Last(values), scale |-> GB,
                       severity |-> storage_severity(Last(values), z),
                       context |-> ""], t2, TRUE)

check_request_rate ==
    /\ pc = "check_request_rate" /\ step = "detect"
    /\ \E up \in BOOLEAN :
       LET values == fetched[1]
           roc == rate_of_change_anomaly(values, ROC_THRESHOLD)
           z   == zscore_anomaly(values, FIXED_ZSCORE_THRESHOLD, 1, up)
           t1  == trace \o <<"rate_of_change_anomaly", "zscore_anomaly">>
           t2  == Append(t1, "_can_alert")
       IN  IF NoData(values) THEN Return(trace)
           ELSE IF ~(roc.is_anomaly \/ z.is_anomaly) THEN Return(t1)
           ELSE IF ~_can_alert("request_rate") THEN Return(t2)
           ELSE Built([metric_name |-> "Request Rate (requests/sec)",
                       current_value |-> Last(values), scale |-> 1,
                       severity |-> request_severity(roc),
                       context |-> "Rate of change"], t2, TRUE)

\* one turn of the for loop of check_network_traffic, up to the alert being built
check_network_traffic ==
    /\ pc = "check_network_traffic" /\ step = "detect"
    /\ \E up \in BOOLEAN :
       LET values == fetched[i]
           z  == zscore_anomaly(values, ZSCORE_THRESHOLD_NUM, ZSCORE_THRESHOLD_DEN, up)
           t1 == Append(trace, "zscore_anomaly")
           t2 == Append(t1, "_can_alert")
           skip(tr) == IF i < Len(Names)
                       THEN /\ i' = i + 1
                            /\ trace' = tr
                            /\ UNCHANGED <<pc, step, clock, alert_cooldown_dict, fetched,
                                           alert, insight, last_attempt, notification,
                                           interrupted, openwebui>>
                       ELSE Return(tr)
       IN  IF ~z.is_anomaly THEN skip(t1)
           ELSE IF ~_can_alert(KeyOfName(Names[i])) THEN skip(t2)
           ELSE Built([metric_name |-> Names[i],
                       current_value |-> Last(values), scale |-> MB,
                       severity |-> network_severity(z),
                       context |-> ""], t2, FALSE)

check_error_rate ==
    /\ pc = "check_error_rate" /\ step = "detect"
    /\ \E up \in BOOLEAN :
       LET values == fetched[1]
           z  == zscore_anomaly(values, FIXED_ZSCORE_THRESHOLD, 1, up)
           t1 == Append(trace, "zscore_anomaly")
           t2 == Append(t1, "_can_alert")
       IN  IF NoData(values) THEN Return(trace)
           ELSE IF ~z.is_anomaly THEN Return(t1)
           ELSE IF ~_can_alert("error_rate") THEN Return(t2)
           ELSE Built([metric_name |-> "Error Rate (5xx errors/sec)",
                       current_value |-> Last(values), scale |-> 1,
                       severity |-> error_severity(Last(values), z),
                       context |-> ""], t2, TRUE)

\* insight = self.openwebui.generate_context(...)
GenerateContext ==
    /\ InEvaluator
    /\ step = "insight"
    /\ \E resp \in InsightResponses, d \in 0..MaxDelay :
        /\ clock + d <= MaxClock
        /\ clock' = clock + d
        /\ insight' = generate_context(resp)
        /\ trace' = IF resp.outcome = "ok" /\ resp.status_code = 200 /\ resp.wellformed
                    THEN Append(trace, "generate_context")
                    ELSE trace \o <<"generate_context", "logger.warning">>
    /\ step' = "send"
    /\ UNCHANGED <<pc, i, alert_cooldown_dict, fetched, alert, last_attempt, notification, interrupted, openwebui>>

\* self.notifier.send_alert(alert, insight)
SendAlert ==
    /\ InEvaluator
    /\ step = "send"
    /\ \E delivery \in Deliveries, d \in 0..MaxDelay :
        /\ clock + d <= MaxClock
        /\ clock' = clock + d
        /\ notification' = embed(alert, insight)
        /\ last_attempt' =
              [k \in DOMAIN last_attempt \cup {CurrentKey} |->
                  IF k = CurrentKey
                  THEN clock + d
                  ELSE last_attempt[k]]
        /\ trace' = IF send_alert(delivery)
                    THEN Append(trace, "send_alert")
                    ELSE trace \o <<"send_alert", "logger.error">>
    /\ step' = "record"
    /\ UNCHANGED <<pc, i, alert_cooldown_dict, fetched, alert, insight, interrupted, openwebui>>

\* self._record_alert(key), the last statement of the alert path
RecordAlert ==
    /\ InEvaluator
    /\ step = "record"
    /\ _record_alert(CurrentKey)
    /\ IF pc = "check_network_traffic" /\ i < Len(Names)
       THEN /\ i' = i + 1
            /\ step' = "detect"
            /\ trace' = Append(trace, "_record_alert")
            /\ alert' = NoAlert
            /\ notification' = NoNotification
            /\ UNCHANGED <<pc, insight, fetched>>
       ELSE /\ pc' = AfterEvaluator(pc)
            /\ step' = IF pc' = "sleep" THEN "-" ELSE "fetch"
            /\ i' = 0
            /\ alert' = NoAlert
            /\ insight' = ""
            /\ fetched' = <<>>
            /\ notification' = NoNotification
            /\ trace' = trace \o <<"_record_alert", "return">>
    /\ UNCHANGED <<clock, last_attempt, interrupted, openwebui>>

\* time.sleep(self.check_interval) at the end of the loop body
Sleep ==
    /\ pc = "sleep"
    /\ \E d \in 0..MaxDelay :
        /\ clock + check_interval + d <= MaxClock
        /\ clock' = clock + check_interval + d
    /\ pc' = "check_storage_space"
    /\ step' = "fetch"
    /\ trace' = <<"sleep">>
    /\ UNCHANGED <<i, alert_cooldown_dict, fetched, alert, insight, last_attempt, notification,
                   interrupted, openwebui>>

\* except Exception: the error is logged, run() sleeps one interval and returns
ExceptHandler ==
    /\ pc = "except_sleep"
    /\ \E d \in 0..MaxDelay :
        /\ clock + check_interval + d <= MaxClock
        /\ clock' = clock + check_interval + d
    /\ pc' = "stopped"
    /\ UNCHANGED <<step, i, alert_cooldown_dict, fetched, alert, insight, last_attempt,
                   notification, trace, interrupted, openwebui>>

\* KeyboardInterrupt caught inside the loop, which goes on
OnKeyboardInterruptResumed == "sleep"

\* Where run() goes when KeyboardInterrupt is raised: inside the try it is caught
\* and run() returns; inside the except handler it leaves run() uncaught.
OnKeyboardInterrupt == "stopped"

KeyboardInterrupt ==
    /\ pc # "stopped"
    /\ pc' = OnKeyboardInterrupt
    /\ interrupted' = TRUE
    /\ step' = "-"
    /\ i' = 0
    /\ fetched' = <<>>
    /\ alert' = NoAlert
    /\ insight' = ""
    /\ notification' = NoNotification
    /\ UNCHANGED <<clock, alert_cooldown_dict, last_attempt, trace, openwebui>>

Next ==
    \/ GetMetricValues
    \/ check_storage_space
    \/ check_request_rate
    \/ check_network_traffic
    \/ check_error_rate
    \/ GenerateContext
    \/ SendAlert
    \/ RecordAlert
    \/ Sleep
    \/ ExceptHandler
    \/ KeyboardInterrupt

Spec == Init /\ [][Next]_vars

(***************************************************************************)
(* The evaluators on a wide range of inputs: one evaluator call that has    *)
(* just fetched its series, followed to its return.                         *)
(***************************************************************************)
SampleValues == {-5, 0, 10, 20, 25, 30, 40}

\* a, then k times b, then c
Step(a, k, b, c) ==
    [j \in 1..(k + 2) |-> IF j = 1 THEN a ELSE IF j = k + 2 THEN c ELSE b]

\* 23 equal samples, then one ten times smaller (in units of 1e9 bytes)
ScenarioA == Ramp(ScenarioLen, 100, 10)

\* mean 4.6 and std 1.2 are not float64 numbers; the computed z-score is
\* 2.0000000000000004 where the exact one is 2
RoundedUp == <<4, 4, 4, 4, 7>>

DetectorSeries ==
    {<<>>, ScenarioA, RoundedUp}
    \cup {<<a>> : a \in SampleValues}
    \cup {Step(a, k, b, c) : a \in SampleValues, b \in SampleValues,
                             c \in SampleValues, k \in 0..MaxPad}

InitDetect ==
    /\ pc \in {"check_storage_space", "check_request_rate", "check_error_rate"}
    /\ step = "detect"
    /\ i = 0
    /\ clock \in {alert_cooldown, alert_cooldown + 1}
    /\ alert_cooldown_dict = <<>>
    /\ \E s \in DetectorSeries :
        /\ fetched = <<s>>
        /\ trace = IF s = <<>> THEN <<pc, "get_metric_values", "no data">>
                   ELSE <<pc, "get_metric_values">>
    /\ alert = NoAlert
    /\ insight = ""
    /\ last_attempt = <<>>
    /\ notification = NoNotification
    /\ interrupted = FALSE
    /\ \E cfg \in Configs : openwebui = MonitorOpenwebui(cfg)

NextDetect ==
    \/ check_storage_space
    \/ check_request_rate
    \/ check_error_rate
    \/ GenerateContext
    \/ SendAlert
    \/ RecordAlert

SpecDetect == InitDetect /\ [][NextDetect]_vars

(***************************************************************************)
(* The loop running for ever on a source that reports an anomaly for every  *)
(* signal in every cycle, with no failure of get_metric_values and no       *)
(* interrupt.  The code reads time.time() only in differences and against   *)
(* the 0 that stands for a key without record, so the origin of time can be *)
(* moved forward: MoveOrigin keeps the clock of an endless run within       *)
(* 0..MaxClock and leaves the result of every _can_alert as it is (a stamp  *)
(* older than the new origin reads as 0, and the clock stays past           *)
(* alert_cooldown).                                                         *)
(***************************************************************************)
LiveResponses ==
    {[outcome |-> "ok", status |-> "success",
      result |-> <<[wellformed |-> TRUE, values |-> Ramp(ShortLen, 10, 40)]>>]}

GetMetricValuesLive == Fetch(LiveResponses)

Earlier(t) == IF t > 0 THEN t - 1 ELSE 0

MoveOrigin ==
    /\ clock - 1 > alert_cooldown
    /\ clock' = clock - 1
    /\ alert_cooldown_dict' =
          [k \in DOMAIN alert_cooldown_dict |-> Earlier(alert_cooldown_dict[k])]
    /\ last_attempt' = [k \in DOMAIN last_attempt |-> Earlier(last_attempt[k])]
    /\ UNCHANGED <<pc, step, i, fetched, alert, insight, notification, trace,
                   interrupted, openwebui>>

RunLive ==
    \/ GetMetricValuesLive
    \/ check_storage_space
    \/ check_request_rate
    \/ check_network_traffic
    \/ check_error_rate
    \/ GenerateContext
    \/ SendAlert
    \/ RecordAlert
    \/ Sleep

NextLive == RunLive \/ MoveOrigin

\* run() is one thread and every call of it returns (the requests carry
\* timeouts), so the loop always takes its next step; time is never short.
SpecLive ==
    Init /\ [][NextLive]_vars /\ WF_vars(RunLive) /\ WF_vars(MoveOrigin)

\* the two states of the orchestrator
state == IF pc = "stopped" THEN "stopped" ELSE "running"

(***************************************************************************)
(* Properties                                                              *)
(***************************************************************************)
Has(tr, e) == \E j \in 1..Len(tr) : tr[j] = e

\* the last call of a trace
LastEvent(tr) == IF tr = <<>> THEN "" ELSE tr[Len(tr)]

\* The entry of alert key k in the registry, <<>> when there is none.
Entry(k) == IF k \in DOMAIN alert_cooldown_dict THEN <<alert_cooldown_dict[k]>> ELSE <<>>

\* send_alert is the next call.
Sending == InEvaluator /\ step = "send"

\* C1: a delivery attempt for a key starts more than alert_cooldown after the
\* previous delivery attempt for the same key returned, so no two attempts for
\* one key fall within alert_cooldown of each other.
C1_AttemptsApart ==
    Sending /\ CurrentKey \in DOMAIN last_attempt
        => clock - last_attempt[CurrentKey] > alert_cooldown

C1_Witness ==
    /\ Sending
    /\ CurrentKey = "request_rate"
    /\ "request_rate" \in DOMAIN last_attempt

\* C2: can_alert(key) is true iff no alert was ever recorded for key or more than
\* the cooldown has passed since the last record; in particular it is true for a
\* never-recorded key at every clock value.
C2_CanAlertIffNewOrElapsed ==
    \A k \in Keys :
        _can_alert(k) <=> (k \notin DOMAIN alert_cooldown_dict
                           \/ clock - alert_cooldown_dict[k] > alert_cooldown)

\* C3: record_alert(k) changes the registry entry of k alone, and leaves the
\* result of can_alert(k2) as it was for every other key k2; the registry holds
\* entries for the five keys only.
C3_RecordIsPerKey ==
    [][/\ DOMAIN alert_cooldown_dict' \subseteq Keys
       /\ (InEvaluator /\ step = "record") =>
            \A k2 \in Keys \ {CurrentKey} :
                /\ Entry(k2)' = Entry(k2)
                /\ _can_alert(k2)' = _can_alert(k2)]_vars

C3_Witness ==
    /\ "storage_space" \in DOMAIN alert_cooldown_dict
    /\ "network_send" \in DOMAIN alert_cooldown_dict
    /\ alert_cooldown_dict["network_send"] > alert_cooldown_dict["storage_space"]
    /\ _can_alert("storage_space")
    /\ ~_can_alert("network_send")
    /\ Has(trace, "_record_alert")

\* C4: when send_alert fails, the failure stays inside the evaluator, which goes
\* on to record the cooldown of the key; every attempt, failed or not, is
\* recorded, and no attempt starts within alert_cooldown of the record of its key.
C4_FailedDeliveryConsumesCooldown ==
    /\ [][(InEvaluator /\ step = "send" /\ LastEvent(trace') = "logger.error")
            => (pc' = pc /\ step' = "record")]_vars
    /\ [][(InEvaluator /\ step = "record" /\ LastEvent(trace) = "logger.error"
             /\ pc' # "stopped")
            => \A k \in Keys : k = CurrentKey => Entry(k)' = <<clock>>]_vars
    /\ [](\A k \in DOMAIN last_attempt :
            \/ pc = "stopped"
            \/ InEvaluator /\ step = "record" /\ CurrentKey = k
            \/ Entry(k) = <<last_attempt[k]>>)
    /\ [](Sending /\ CurrentKey \in DOMAIN alert_cooldown_dict
            => clock - alert_cooldown_dict[CurrentKey] > alert_cooldown)

C4_Witness ==
    /\ pc = "check_request_rate"
    /\ trace[1] = "check_storage_space"
    /\ Has(trace, "logger.error")
    /\ Has(trace, "_record_alert")
    /\ Entry("storage_space") = <<clock>>

\* C5: after a failure inside a cycle the orchestrator keeps running; it is
\* stopped by an external interrupt only.
C5_StoppedOnlyByInterrupt == state = "stopped" => interrupted

\* C6: an evaluator whose signal came back empty runs no detector, does not
\* touch the cooldown registry, asks for no insight and sends nothing, and the
\* cycle goes on with the next evaluator.
C6_NoDataIsNoOp ==
    Has(trace, "no data") =>
        /\ \A e \in {"zscore_anomaly", "rate_of_change_anomaly", "_can_alert",
                     "generate_context", "send_alert", "_record_alert"} :
                ~Has(trace, e)
        /\ state = "running" => pc \in {trace[1], AfterEvaluator(trace[1])}

\* The part of C6 that the code keeps: no call but get_metric_values is made by
\* an evaluator with an empty signal, and it changes no cooldown entry.
NoDataChangesNothing ==
    /\ [](Has(trace, "no data") =>
            \A e \in {"zscore_anomaly", "rate_of_change_anomaly", "_can_alert",
                       "generate_context", "send_alert", "_record_alert"} :
                ~Has(trace, e))
    /\ [][Has(trace', "no data") =>
            UNCHANGED <<alert_cooldown_dict, last_attempt, notification>>]_vars

\* C7: the send signal is run through the detector whenever the send series has
\* data, whatever the receive series is (empty included).
C7_SendEvaluatedAlone ==
    (/\ Len(trace) >= 3
     /\ trace[1] = "check_network_traffic"
     /\ trace[3] # "no data"
     /\ LastEvent(trace) = "return")
        => Has(trace, "zscore_anomaly")

\* C8: every failure of the metric source ends as an empty series inside the
\* evaluator: no exception reaches the loop of run().
C8_SourceFailureNeverRaises == pc # "except_sleep" /\ ~Has(trace, "raise")

\* C9: when generate_context fails, the evaluator goes on to send the alert with
\* an empty insight and records the cooldown; the notification shows the insight
\* when it is not empty, else the context when there is one.
C9_InsightFailureStillDelivers ==
    /\ [][(InEvaluator /\ step = "insight" /\ LastEvent(trace') = "logger.warning")
            => (pc' = pc /\ step' = "send" /\ insight' = "")]_vars
    /\ [](InEvaluator /\ step = "record" =>
            notification.field =
                IF insight # "" THEN insight
                ELSE IF alert.context # "" THEN alert.context ELSE NoField)
    /\ []((Has(trace, "logger.warning") /\ LastEvent(trace) = "return") =>
            /\ Has(trace, "send_alert")
            /\ Has(trace, "_record_alert"))

C9_Witness ==
    /\ InEvaluator /\ step = "record"
    /\ Has(trace, "logger.warning")
    /\ insight = ""
    /\ notification.field = "Rate of change"

\* C10: an interrupt stops the orchestrator, and once stopped no evaluator runs,
\* nothing is sent and the cooldown registry stays as it is.
C10_InterruptStops ==
    /\ [](interrupted => state = "stopped")
    /\ [][state = "stopped" => UNCHANGED vars]_vars

C10_Witness ==
    /\ interrupted
    /\ state = "stopped"
    /\ LastEvent(trace) = "send_alert"
    /\ alert_cooldown_dict # <<>>

\* An alert has been built and is on its way: insight, delivery or record.
InAlertPath == InEvaluator /\ step \in {"insight", "send", "record"}

\* C11: every alert an evaluator builds, and every notification that is sent,
\* has severity medium or high (colours FF6600 or FF0000), never low.
C11_SeverityMediumOrHigh ==
    /\ InAlertPath => alert.severity \in {"medium", "high"}
    /\ notification # NoNotification =>
            /\ notification.severity \in {"medium", "high"}
            /\ notification.color \in {"FF6600", "FF0000"}

C11_Witness ==
    /\ pc = "check_storage_space" /\ step = "record"
    /\ notification.severity = "medium"
    /\ notification.color = "FF6600"
    /\ LastEvent(trace) = "send_alert"

\* The earliest value of the sub-window of the last ten points.
WindowFirst(values) ==
    values[IF Len(values) >= 10 THEN Len(values) - 9 ELSE 1]

\* The change from the earliest value of the sub-window to the last value is
\* more than k percent of the earliest value, in absolute value.
PercentAbove(values, k) ==
    /\ Len(values) >= 2
    /\ WindowFirst(values) # 0
    /\ Abs(Last(values) - WindowFirst(values)) * 100 > k * Abs(WindowFirst(values))

\* the sum over values[1..j] of (n * values[j] - S)^2
RECURSIVE DevSqUpTo(_, _, _, _)
DevSqUpTo(values, n, S, j) ==
    IF j = 0 THEN 0
    ELSE (n * values[j] - S) * (n * values[j] - S) + DevSqUpTo(values, n, S, j - 1)

\* n^2 times the sum of the squared deviations from the mean
SqDevSum(values) == DevSqUpTo(values, Len(values), Sum(values), Len(values))

\* n^3 times the squared deviation of the last value from the mean
SqDevLast(values) ==
    LET d == Len(values) * Last(values) - Sum(values)
    IN  Len(values) * d * d

\* The population standard deviation is not zero.
Spread(values) == Len(values) >= 2 /\ SqDevSum(values) # 0

\* The last value lies more than tn/td population standard deviations from the
\* population mean:  (x - mean)^2 > (tn/td)^2 * (sum of squared deviations)/n.
StrictlyBeyond(values, tn, td) ==
    LET q == SqDevSum(values)
    IN  Len(values) >= 2 /\ q # 0 /\ td * td * SqDevLast(values) > tn * tn * q

\* The last value lies exactly tn/td standard deviations from the mean.
ExactlyAt(values, tn, td) ==
    LET q == SqDevSum(values)
    IN  Len(values) >= 2 /\ q # 0 /\ td * td * SqDevLast(values) = tn * tn * q

\* C12: with a non-empty series check_request_rate goes on to the cooldown gate
\* exactly when the change over the sub-window is above ROC_THRESHOLD percent or
\* the z-score detector with threshold 2.0 reports an anomaly; it builds an alert
\* exactly when, in addition, the gate is open; the severity of the alert is high
\* when the absolute change is above 200 percent and medium otherwise, medium
\* also when the sub-window starts with 0 and the z-score alone triggered.
C12_RequestRateTrigger ==
    [][(pc = "check_request_rate" /\ step = "detect" /\ fetched[1] # <<>>) =>
        /\ Has(trace', "_can_alert") =>
                \/ PercentAbove(fetched[1], ROC_THRESHOLD)
                \/ zscore_anomaly(fetched[1], 2, 1, TRUE).is_anomaly
        /\ (\/ PercentAbove(fetched[1], ROC_THRESHOLD)
            \/ zscore_anomaly(fetched[1], 2, 1, FALSE).is_anomaly)
                => Has(trace', "_can_alert")
        /\ (step' \in {"insight", "send"})
                <=> (Has(trace', "_can_alert") /\ _can_alert("request_rate"))
        /\ (step' \in {"insight", "send"}) =>
                alert'.severity =
                    IF PercentAbove(fetched[1], 200) THEN "high" ELSE "medium"]_vars

C12_Witness ==
    /\ pc = "check_request_rate" /\ step = "record"
    /\ WindowFirst(fetched[1]) = 0
    /\ Len(fetched[1]) > 10
    /\ fetched[1][1] # 0
    /\ alert.severity = "medium"
    /\ notification.field = "Rate of change"

\* how often call e stands in the trace
Count(tr, e) == Cardinality({j \in 1..Len(tr) : tr[j] = e})

\* The last value is below half of mean - (tn/td) * std.
BelowHalfOfLowerBound(values, tn, td) ==
    /\ Sum(values) - 2 * Len(values) * Last(values) > 0
    /\ tn * tn * SqDevSum(values)
         < td * td * Len(values) * (Sum(values) - 2 * Len(values) * Last(values))
                                 * (Sum(values) - 2 * Len(values) * Last(values))

\* check_storage_space has fetched the scenario series.
AtScenarioA ==
    pc = "check_storage_space" /\ step = "detect" /\ fetched = <<ScenarioA>>

\* The series is flagged at 2.5 and an alert of severity high is built.
ScenarioAAlertBuilt ==
    /\ StrictlyBeyond(ScenarioA, 5, 2)
    /\ step' \in {"insight", "send"}
    /\ alert'.severity = "high"

\* send_alert has been called once when the cooldown is recorded.
ScenarioAOneSend ==
    (pc = "check_storage_space" /\ step = "record" /\ fetched = <<ScenarioA>>)
        => Count(trace', "send_alert") = 1

StorageSeverityRule ==
    pc = "check_storage_space" /\ InAlertPath =>
        alert.severity = IF BelowHalfOfLowerBound(fetched[1], 5, 2)
                         THEN "high" ELSE "medium"

\* C13: with an empty cooldown registry the storage evaluator, given 23 equal
\* samples followed by one ten times smaller, has the series flagged at
\* threshold 2.5 and dispatches exactly one notification in that cycle; the
\* severity of a storage alert is high iff the current value is below 0.5 times
\* the expected lower bound, else medium.
C13_ScenarioADispatched ==
    /\ [][(AtScenarioA /\ alert_cooldown_dict = <<>>) => ScenarioAAlertBuilt]_vars
    /\ [][ScenarioAOneSend]_vars
    /\ []StorageSeverityRule

\* What the code keeps of C13: the same once the clock is past alert_cooldown.
ScenarioADispatchedLate ==
    /\ [][(AtScenarioA /\ alert_cooldown_dict = <<>> /\ clock > alert_cooldown)
            => ScenarioAAlertBuilt]_vars
    /\ [][ScenarioAOneSend]_vars
    /\ []StorageSeverityRule

\* check_request_rate is about to run zscore_anomaly (threshold 2.0) on a series
\* with a spread, and the rate of change is not above its threshold.
ZscoreDecides ==
    /\ pc = "check_request_rate" /\ step = "detect"
    /\ Spread(fetched[1])
    /\ ~PercentAbove(fetched[1], ROC_THRESHOLD)

\* C14: zscore_anomaly reports an anomaly iff the last value lies strictly more
\* than threshold population standard deviations from the population mean of
\* the whole series; a last value exactly threshold standard deviations away
\* is not an anomaly.  (Followed where check_request_rate calls it with 2.0.)
C14_StrictComparison ==
    [][ZscoreDecides =>
        (Has(trace', "_can_alert") <=> StrictlyBeyond(fetched[1], 2, 1))]_vars

\* What the code keeps of C14: away from the threshold the comparison is as
\* claimed, for both thresholds in use.
StrictAwayFromThreshold ==
    /\ [][(ZscoreDecides /\ ~ExactlyAt(fetched[1], 2, 1)) =>
            (Has(trace', "_can_alert") <=> StrictlyBeyond(fetched[1], 2, 1))]_vars
    /\ [][(/\ pc = "check_storage_space" /\ step = "detect"
            /\ Spread(fetched[1]) /\ ~ExactlyAt(fetched[1], 5, 2)) =>
            (Has(trace', "_can_alert") <=> StrictlyBeyond(fetched[1], 5, 2))]_vars

\* check_request_rate is about to run its detectors on a non-empty series.
RequestDetect ==
    pc = "check_request_rate" /\ step = "detect" /\ fetched[1] # <<>>

\* The change over the sub-window is +p percent (up) or -p percent (down).
ChangeIs(values, p) ==
    /\ Len(values) >= 2
    /\ WindowFirst(values) # 0
    /\ (Last(values) - WindowFirst(values)) * 100 = p * WindowFirst(values)

\* C15: rate_of_change_anomaly decides by the absolute value of the percent
\* change between the first and the last value of the sub-window of the last 10
\* points (the whole series if shorter): a change of +150% and one of -150%
\* both trigger at threshold 100 and neither triggers at threshold 200.
C15_RateOfChangeIgnoresSign ==
    RequestDetect =>
        /\ \A k \in {100, 200} :
                rate_of_change_anomaly(fetched[1], k).is_anomaly
                    <=> PercentAbove(fetched[1], k)
        /\ (ChangeIs(fetched[1], 150) \/ ChangeIs(fetched[1], -150)) =>
                /\ rate_of_change_anomaly(fetched[1], 100).is_anomaly
                /\ ~rate_of_change_anomaly(fetched[1], 200).is_anomaly

C15_Witness ==
    /\ pc = "check_request_rate" /\ step = "record"
    /\ ChangeIs(fetched[1], -150)
    /\ Len(fetched[1]) > 10
    /\ ~zscore_anomaly(fetched[1], 2, 1, TRUE).is_anomaly
    /\ alert.severity = "medium"

\* C16: rate_of_change_anomaly reports no anomaly (and the change 0) whenever
\* the earliest value of the sub-window, the 10th value from the end or the
\* first value of a shorter series, is 0, whatever the later values; it never
\* divides by zero.
C16_ZeroBaselineNoAnomaly ==
    RequestDetect =>
        \A k \in {100, 200} :
            /\ rate_of_change_anomaly(fetched[1], k).den # 0
            /\ WindowFirst(fetched[1]) = 0 =>
                    /\ ~rate_of_change_anomaly(fetched[1], k).is_anomaly
                    /\ rate_of_change_anomaly(fetched[1], k).num = 0

C16_Witness ==
    /\ pc = "check_request_rate" /\ step = "send"
    /\ Len(fetched[1]) < 10
    /\ WindowFirst(fetched[1]) = 0
    /\ Last(fetched[1]) = 40
    /\ alert.severity = "medium"
    /\ alert.context = "Rate of change"

\* C17: unless the URL, the API key and the model are all three configured,
\* the monitor holds no insight generator, no evaluator calls generate_context,
\* and the alerts go out with an empty insight.
C17_InsightDisabledAsGroup ==
    /\ openwebui # <<>> =>
            openwebui[1].base_url /\ openwebui[1].api_key /\ openwebui[1].model
    /\ Has(trace, "generate_context") =>
            /\ openwebui # <<>>
            /\ openwebui[1].base_url /\ openwebui[1].api_key /\ openwebui[1].model
    /\ (InEvaluator /\ step = "record" /\ insight # "") =>
            /\ openwebui # <<>>
            /\ openwebui[1].base_url /\ openwebui[1].api_key /\ openwebui[1].model

\* What the code keeps of C17: a generator is held, called and its insight
\* used only when the URL and the API key are configured.
InsightNeedsUrlAndKey ==
    /\ openwebui # <<>> => openwebui[1].base_url /\ openwebui[1].api_key
    /\ (Has(trace, "generate_context") \/ insight # "") => openwebui # <<>>

\* The detector condition of the running evaluator can hold for the series it
\* works on (at an exact threshold the rounding decides).
Triggered ==
    LET beyond(values, tn, td) ==
            LET q == SqDevSum(values)
            IN  Len(values) >= 2 /\ q # 0 /\ td * td * SqDevLast(values) >= tn * tn * q
    IN  CASE pc = "check_storage_space" -> beyond(fetched[1], 5, 2)
          [] pc = "check_request_rate" ->
                PercentAbove(fetched[1], ROC_THRESHOLD) \/ beyond(fetched[1], 2, 1)
          [] pc = "check_network_traffic" -> beyond(fetched[i], 5, 2)
          [] pc = "check_error_rate" -> beyond(fetched[1], 2, 1)

\* The cooldown gate of key k as the code reads it.
GateOpen(k) ==
    (IF k \in DOMAIN alert_cooldown_dict THEN clock - alert_cooldown_dict[k] ELSE clock)
        > alert_cooldown

\* Call e stands in the trace only directly after one of the calls in `before`.
OnlyAfter(e, before) ==
    \A j \in 1..Len(trace) : trace[j] = e => (j > 1 /\ trace[j - 1] \in before)

\* Call e, when it is not the last of the trace, is directly followed by one of
\* the calls in `after`.
OnlyBefore(e, after) ==
    \A j \in 1..(Len(trace) - 1) : trace[j] = e => trace[j + 1] \in after

\* C18: within one evaluation the calls come in the order gate check, insight
\* request (if any), delivery attempt, cooldown record; the insight request and
\* the delivery attempt are made only after the detector triggered and
\* _can_alert returned True; _record_alert is called only after send_alert has
\* returned, once per delivery attempt.
C18_OrderWithinEvaluation ==
    /\ [](/\ OnlyAfter("_can_alert", {"zscore_anomaly"})
          /\ OnlyAfter("generate_context", {"_can_alert"})
          /\ OnlyAfter("send_alert", {"_can_alert", "generate_context", "logger.warning"})
          /\ OnlyAfter("_record_alert", {"send_alert", "logger.error"})
          /\ OnlyBefore("send_alert", {"logger.error", "_record_alert"})
          /\ OnlyBefore("logger.error", {"_record_alert"}))
    /\ [][(InEvaluator /\ step = "detect" /\ step' \in {"insight", "send"})
            => (Triggered /\ GateOpen(CurrentKey))]_vars
    /\ [][(step' = "insight" /\ step # "insight") => step = "detect"]_vars
    /\ [][(step' = "send" /\ step # "send") => step \in {"detect", "insight"}]_vars
    /\ [][(step' = "record" /\ step # "record") =>
            (step = "send" /\ pc' = pc /\ i' = i
             /\ LastEvent(trace') \in {"send_alert", "logger.error"})]_vars

C18_Witness ==
    /\ pc = "check_request_rate"
    /\ trace = <<"check_storage_space", "get_metric_values", "zscore_anomaly",
                 "_can_alert", "generate_context", "send_alert", "_record_alert",
                 "return">>

\* run() moves on in the order of the loop body: an evaluator returns and the
\* next one starts, the fourth returns and the sleep starts, the sleep ends
\* after check_interval at least and the first evaluator starts.
InLoopOrder ==
    \/ /\ InEvaluator
       /\ pc' = AfterEvaluator(pc)
       /\ LastEvent(trace') = "return"
       /\ step' = IF pc = "check_error_rate" THEN "-" ELSE "fetch"
    \/ /\ pc = "sleep"
       /\ pc' = "check_storage_space"
       /\ step' = "fetch"
       /\ clock' >= clock + check_interval

\* C19: every cycle calls the evaluators in the order storage, request rate,
\* network, error rate, each returning before the next starts; the sleep begins
\* only after all four have returned, and no evaluator of the next cycle starts
\* before the sleep has ended.  (An interrupt may stop the loop anywhere.)
C19_CycleOrder ==
    /\ [][(pc' # pc /\ ~interrupted') => InLoopOrder]_vars
    /\ [](pc = "sleep" => trace[1] = "check_error_rate" /\ LastEvent(trace) = "return")
    /\ []((pc = "check_storage_space" /\ step = "fetch") => trace \in {<<>>, <<"sleep">>})

\* What the code keeps of C19: the order holds in every cycle in which
\* get_metric_values does not raise.
CycleOrderUnlessRaised ==
    /\ [][(pc' # pc /\ ~interrupted' /\ pc # "except_sleep" /\ pc' # "except_sleep")
            => InLoopOrder]_vars
    /\ [](pc = "sleep" => trace[1] = "check_error_rate" /\ LastEvent(trace) = "return")
    /\ []((pc = "check_storage_space" /\ step = "fetch") => trace \in {<<>>, <<"sleep">>})

\* C20: on a source that reports an anomaly in every cycle, with the clock
\* advancing and no failed or interrupted cycle, every recorded alert of a key
\* is followed, sooner or later, by another delivery attempt for that key.
\* (A record is never removed from the registry; so either the key is never
\* recorded, or delivery attempts for it are made again and again.)
C20_SuppressionEnds ==
    \A k \in Keys :
        \/ <>[](k \notin DOMAIN alert_cooldown_dict)
        \/ []<>(Sending /\ CurrentKey = k)

C20_Witness ==
    /\ Sending
    /\ CurrentKey = "error_rate"
    /\ "error_rate" \in DOMAIN alert_cooldown_dict
    /\ ~_can_alert("storage_space")

\* A z-score evaluator (threshold tn/td) is about to run the detector on a
\* series of length n with n - 1 <= (tn/td)^2.
ShortFor(tn, td) ==
    /\ step = "detect"
    /\ fetched[1] # <<>>
    /\ td * td * (Len(fetched[1]) - 1) <= tn * tn

\* C21: a series of length n with n - 1 <= threshold^2 (n <= 7 at 2.5, n <= 5
\* at 2.0) is never reported as an anomaly by zscore_anomaly, whatever its
\* values, so check_storage_space and check_error_rate reach no gate check and
\* build no alert on it.
C21_ShortSeriesNeverFlagged ==
    /\ [][(pc = "check_storage_space" /\ ShortFor(5, 2)) =>
            (~Has(trace', "_can_alert") /\ step' \notin {"insight", "send"})]_vars
    /\ [][(pc = "check_error_rate" /\ ShortFor(2, 1)) =>
            (~Has(trace', "_can_alert") /\ step' \notin {"insight", "send"})]_vars

\* What the code keeps of C21: no series with n - 1 < threshold^2 is flagged,
\* and none with n - 1 = threshold^2 whose z-score is below the threshold.
ShortSeriesBelowThreshold ==
    /\ [][(pc = "check_storage_space" /\ ShortFor(5, 2)) =>
            (~Has(trace', "_can_alert") /\ step' \notin {"insight", "send"})]_vars
    /\ [][(pc = "check_error_rate" /\ ShortFor(2, 1) /\ ~ExactlyAt(fetched[1], 2, 1))
            => (~Has(trace', "_can_alert") /\ step' \notin {"insight", "send"})]_vars

====
